---- MODULE Spec2Model ----
(***************************************************************************)
(* Model of columnize's extent engine (extents.go) and its delay queue     *)
(* (circular.go).                                                          *)
(*                                                                         *)
(* A Go string is modelled as the sequence of its bytes.  A byte is a      *)
(* one-token TLA+ string: " " (space), "a" (a letter), "1" (a digit), and  *)
(* "C3" "A9" (the two bytes of the rune U+00E9).  Columns count runes,     *)
(* slices cut bytes, exactly as in the source.                             *)
(***************************************************************************)
EXTENDS Integers, Sequences, FiniteSets, TLC

(* ------------------------------ bounds -------------------------------- *)
MaxLen == 3        \* longest input line, in bytes
MaxLines == 3      \* most input lines one run reads
MaxHeader == 1     \* largest --header value tried
MaxFooter == 2     \* largest --footer value tried
ProbeLen == 4      \* longest line a single function call is tried on
TwinLen == 2       \* longest header or footer line of the two compared inputs
MergeCols == 4     \* rightmost column of the extent lists given to mergeExtents
MaxCap == 3        \* largest capacity of a queue exercised alone
MaxPushes == 6     \* most QueueDequeue calls on a queue exercised alone
MaxWidth == 3      \* widest column of the rows printed alone

Min(a, b) == IF a < b THEN a ELSE b
Max(a, b) == IF a > b THEN a ELSE b

(* ------------------------- strings and runes -------------------------- *)
\* Number of bytes of the rune that starts at byte pos (range-over-string
\* decoding; an incomplete or stray byte decodes as one rune of one byte).
RuneSize(s, pos) ==
    IF s[pos] = "C3" /\ pos < Len(s) /\ s[pos + 1] = "A9" THEN 2 ELSE 1

\* unicode.IsSpace on the rune that starts at byte pos.
IsSpace(s, pos) == s[pos] = " "

RECURSIVE RuneCountFrom(_, _)
RuneCountFrom(s, pos) ==
    IF pos > Len(s) THEN 0 ELSE 1 + RuneCountFrom(s, pos + RuneSize(s, pos))

\* utf8.RuneCountInString, which fmt uses to pad.
RuneCount(s) == RuneCountFrom(s, 1)

RECURSIVE TrimLeft(_)
TrimLeft(s) == IF s # <<>> /\ s[1] = " " THEN TrimLeft(Tail(s)) ELSE s

RECURSIVE TrimRight(_)
TrimRight(s) ==
    IF s # <<>> /\ s[Len(s)] = " " THEN TrimRight(SubSeq(s, 1, Len(s) - 1)) ELSE s

\* strings.TrimSpace
TrimSpace(s) == TrimRight(TrimLeft(s))

\* strconv.ParseFloat(field, 64) succeeds; over the model's bytes a field
\* parses exactly when it is a non-empty run of digits.
ParseFloatOk(field) == field # <<>> /\ \A k \in 1..Len(field) : field[k] = "1"

RECURSIVE Spaces(_)
Spaces(n) == IF n <= 0 THEN <<>> ELSE <<" ">> \o Spaces(n - 1)

(* ------------------------------ extents ------------------------------- *)
\* type extent struct { l, r int }
extent(l, r) == [l |-> l, r |-> r]

width(e) == 1 + e.r - e.l

RECURSIVE extentsLoop(_, _, _, _, _, _)
extentsLoop(line, pos, inWord, column, wordLeft, ee) ==
    IF pos > Len(line)
    THEN IF inWord THEN Append(ee, extent(wordLeft, column)) ELSE ee
    ELSE LET col == column + 1
             nxt == pos + RuneSize(line, pos)
         IN  IF IsSpace(line, pos) # inWord
             THEN extentsLoop(line, nxt, inWord, col, wordLeft, ee)
             ELSE IF ~inWord
                  THEN extentsLoop(line, nxt, TRUE, col, col, ee)
                  ELSE extentsLoop(line, nxt, FALSE, col, wordLeft,
                                   Append(ee, extent(wordLeft, col - 1)))

\* a scanner that counts columns from 0
extentsFromLineZeroBased(line) == extentsLoop(line, 1, FALSE, -1, 0, <<>>)

extentsFromLine(line) == extentsLoop(line, 1, FALSE, 0, 0, <<>>)

\* an overlap test that also takes extents that touch for overlapping
attemptMergeTouching(ee1, ee2) ==
    IF ee1.r + 1 < ee2.l THEN [e |-> extent(0, 0), ok |-> FALSE]
    ELSE IF ee2.r + 1 < ee1.l THEN [e |-> extent(0, 0), ok |-> FALSE]
    ELSE [e |-> extent(Min(ee1.l, ee2.l), Max(ee1.r, ee2.r)), ok |-> TRUE]

\* attemptMerge returns (extent, ok)
attemptMerge(ee1, ee2) ==
    IF ee1.r < ee2.l THEN [e |-> extent(0, 0), ok |-> FALSE]
    ELSE IF ee2.r < ee1.l THEN [e |-> extent(0, 0), ok |-> FALSE]
    ELSE [e |-> extent(Min(ee1.l, ee2.l), Max(ee1.r, ee2.r)), ok |-> TRUE]

\* a merge that keeps the extent of the first list where two overlap
RECURSIVE mergeLoopNoUnion(_, _, _, _, _)
mergeLoopNoUnion(ee1, ee2, ee1i, ee2i, ee3) ==
    IF ee1i = Len(ee1) THEN ee3 \o SubSeq(ee2, ee2i + 1, Len(ee2))
    ELSE IF ee2i = Len(ee2) THEN ee3 \o SubSeq(ee1, ee1i + 1, Len(ee1))
    ELSE IF (ee1[ee1i + 1].l <= ee2[ee2i + 1].r /\ ee2[ee2i + 1].l <= ee1[ee1i + 1].r)
         THEN mergeLoopNoUnion(ee1, ee2, ee1i + 1, ee2i + 1, Append(ee3, ee1[ee1i + 1]))
         ELSE IF ee1[ee1i + 1].l < ee2[ee2i + 1].l
              THEN mergeLoopNoUnion(ee1, ee2, ee1i + 1, ee2i, Append(ee3, ee1[ee1i + 1]))
              ELSE mergeLoopNoUnion(ee1, ee2, ee1i, ee2i + 1, Append(ee3, ee2[ee2i + 1]))

RECURSIVE mergeLoop(_, _, _, _, _)
mergeLoop(ee1, ee2, ee1i, ee2i, ee3) ==
    IF ee1i = Len(ee1) THEN ee3 \o SubSeq(ee2, ee2i + 1, Len(ee2))
    ELSE IF ee2i = Len(ee2) THEN ee3 \o SubSeq(ee1, ee1i + 1, Len(ee1))
    ELSE LET m == attemptMerge(ee1[ee1i + 1], ee2[ee2i + 1])
         IN  IF m.ok
             THEN mergeLoop(ee1, ee2, ee1i + 1, ee2i + 1, Append(ee3, m.e))
             ELSE IF ee1[ee1i + 1].l < ee2[ee2i + 1].l
                  THEN mergeLoop(ee1, ee2, ee1i + 1, ee2i, Append(ee3, ee1[ee1i + 1]))
                  ELSE mergeLoop(ee1, ee2, ee1i, ee2i + 1, Append(ee3, ee2[ee2i + 1]))

mergeExtents(ee1, ee2) == mergeLoop(ee1, ee2, 0, 0, <<>>)

(* -------------------------- fieldsFromExtents ------------------------- *)
\* line[lo:hi] panics (slice bounds out of range) unless 0 <= lo <= hi <= len.
SliceOk(line, lo, hi) == 0 <= lo /\ lo <= hi /\ hi <= Len(line)

\* line[lo:hi], bytes lo..hi-1 counted from 0
Slice(line, lo, hi) == SubSeq(line, lo + 1, hi)

Panicked == [panic |-> TRUE, fields |-> <<>>]

\* the statement after the loop (extents.go:126-130)
fieldsTail(line, extents, ei, column, wordStart, fields) ==
    IF ei < Len(extents)
    THEN IF SliceOk(line, wordStart - 1, column)
         THEN [panic |-> FALSE,
               fields |-> [fields EXCEPT ![ei + 1] =
                              TrimSpace(Slice(line, wordStart - 1, column))]]
         ELSE Panicked
    ELSE [panic |-> FALSE, fields |-> fields]

\* the loop over the runes of line (extents.go:111-125); ei counts from 0
RECURSIVE fieldsLoop(_, _, _, _, _, _, _)
fieldsLoop(line, extents, pos, ei, column, wordStart, fields) ==
    IF pos > Len(line)
    THEN fieldsTail(line, extents, ei, column, wordStart, fields)
    ELSE LET col == column + 1
             nxt == pos + RuneSize(line, pos)
         IN  IF ei >= Len(extents) THEN Panicked   \* extents[ei]: index out of range
             ELSE IF col < extents[ei + 1].l
                  THEN fieldsLoop(line, extents, nxt, ei, col, wordStart, fields)
             ELSE IF col = extents[ei + 1].l
                  THEN fieldsLoop(line, extents, nxt, ei, col, col, fields)
             ELSE IF col > extents[ei + 1].r
                  THEN IF ~SliceOk(line, wordStart - 1, col) THEN Panicked
                       ELSE LET f2 == [fields EXCEPT ![ei + 1] =
                                          TrimSpace(Slice(line, wordStart - 1, col))]
                            IN  IF ei + 1 = Len(extents)
                                THEN fieldsTail(line, extents, ei + 1, col, wordStart, f2)
                                ELSE fieldsLoop(line, extents, nxt, ei + 1, col, wordStart, f2)
             ELSE fieldsLoop(line, extents, nxt, ei, col, wordStart, fields)

fieldsFromExtents(line, extents) ==
    fieldsLoop(line, extents, 1, 0, 0, 0, [k \in 1..Len(extents) |-> <<>>])

(* ----------------------------- delay queue ---------------------------- *)
\* interface{} values held by the queue: nil, or a boxed string
Nil == [isNil |-> TRUE]

\* a boxing that turns the empty string into the nil interface value
BoxEmptyAsNil(s) == IF s = <<>> THEN Nil ELSE [isNil |-> FALSE, str |-> s]

\* a string held as an interface{} value: never equal to nil
Box(s) == [isNil |-> FALSE, str |-> s]

\* a constructor that takes a negative count for zero
newCircularBufferClamped(n) ==
    IF n <= 0 THEN [err |-> FALSE, cb |-> [items |-> <<>>, i |-> 0, looped |-> FALSE]]
    ELSE [err |-> FALSE,
          cb |-> [items |-> [k \in 1..n |-> Nil], i |-> 0, looped |-> FALSE]]

\* a constructor that gives the zero-capacity buffer one slot
newCircularBufferOneSlot(n) ==
    IF n < 0 THEN [err |-> TRUE, cb |-> Nil]
    ELSE [err |-> FALSE,
          cb |-> [items |-> [k \in 1..Max(n, 1) |-> Nil], i |-> 0, looped |-> FALSE]]

\* newCircularBuffer(n) returns (*circularBuffer, error); items = <<>> is the
\* nil slice of the zero-capacity buffer
newCircularBuffer(n) ==
    IF n < 0 THEN [err |-> TRUE, cb |-> Nil]
    ELSE IF n = 0 THEN [err |-> FALSE, cb |-> [items |-> <<>>, i |-> 0, looped |-> FALSE]]
    ELSE [err |-> FALSE,
          cb |-> [items |-> [k \in 1..n |-> Nil], i |-> 0, looped |-> FALSE]]

\* an index whose wrapped flag is set by the first store
advanceFlagAlways(cb) ==
    IF cb.i + 1 = Len(cb.items)
    THEN [cb EXCEPT !.i = 0, !.looped = TRUE]
    ELSE [cb EXCEPT !.i = cb.i + 1, !.looped = TRUE]

\* an index that wraps one slot early
advanceEarly(cb) ==
    IF cb.i + 2 >= Len(cb.items)
    THEN [cb EXCEPT !.i = 0, !.looped = TRUE]
    ELSE [cb EXCEPT !.i = cb.i + 1]

\* the index after a store (circular.go:37-40)
advance(cb) ==
    IF cb.i + 1 = Len(cb.items)
    THEN [cb EXCEPT !.i = 0, !.looped = TRUE]
    ELSE [cb EXCEPT !.i = cb.i + 1]

\* a queue that hands back the item it was just given, delaying nothing
dequeuedNewest(cb, item) == item

\* the item QueueDequeue hands back (circular.go:33, 42)
dequeued(cb, item) == cb.items[cb.i + 1]

\* QueueDequeue(item) returns the previous item at the index; ret is the
\* returned value, cb the buffer afterwards
QueueDequeue(cb, item) ==
    IF cb.items = <<>> THEN [cb |-> cb, ret |-> item]
    ELSE [cb |-> advance([cb EXCEPT !.items[cb.i + 1] = item]),
          ret |-> dequeued(cb, item)]

\* a Drain that hands back the slots of a wrapped buffer in slot order
DrainSlotOrder(cb) ==
    IF cb.looped THEN cb.items ELSE SubSeq(cb.items, 1, cb.i)

\* Drain returns the remaining items (circular.go:47-52)
Drain(cb) ==
    IF cb.looped
    THEN SubSeq(cb.items, cb.i + 1, Len(cb.items)) \o SubSeq(cb.items, 1, cb.i)
    ELSE SubSeq(cb.items, 1, cb.i)

(* ------------------------------ formatting ---------------------------- *)
\* a left-justified cell that forgets its delimiter
leftNoDelimiter(w, field, delimiter) == field \o Spaces(w - RuneCount(field))

\* fmt.Printf("%-*s%s", width, field, delimiter)
left(w, field, delimiter) == field \o Spaces(w - RuneCount(field)) \o delimiter

\* fmt.Printf("%*s%s", width, field, delimiter)
right(w, field, delimiter) == Spaces(w - RuneCount(field)) \o field \o delimiter

\* a cell that ignores the field and the flags and always goes left
printCellLeftOnly(w, field, d, lj, rj) == left(w, field, d)

\* one cell of the inner loop (extents.go:182-195); the final "\n" is kept
\* out of the text, it ends the output line
printCell(w, field, d, lj, rj) ==
    IF lj THEN left(w, field, d)
    ELSE IF rj THEN right(w, field, d)
    ELSE IF ParseFloatOk(field) THEN right(w, field, d)
    ELSE left(w, field, d)

\* the inner loop over fields (extents.go:175-196); i counts from 0
RECURSIVE printFields(_, _, _, _, _, _)
printFields(fields, mergedExtents, i, delim, lj, rj) ==
    IF i = Len(fields) THEN <<>>
    ELSE printCell(width(mergedExtents[i + 1]), fields[i + 1],
                   IF i = Len(fields) - 1 THEN <<>> ELSE delim, lj, rj)
         \o printFields(fields, mergedExtents, i + 1, delim, lj, rj)

(* ------------------------------- inputs ------------------------------- *)
\* the bytes input lines are made of
Bytes == {" ", "a"}

RECURSIVE StringsOfLen(_, _)
StringsOfLen(bytes, n) ==
    IF n = 0 THEN {<<>>}
    ELSE {Append(s, b) : s \in StringsOfLen(bytes, n - 1), b \in bytes}

\* every line br.Text() can return, up to MaxLen bytes
Lines == UNION {StringsOfLen(Bytes, n) : n \in 0..MaxLen}

\* the header and footer lines of the two compared inputs
TwinLines == UNION {StringsOfLen(Bytes, n) : n \in 0..TwinLen}

\* the lines a single call of a pure function is tried on
ProbeBytes == {" ", "a", "b"}
ProbeLines == UNION {StringsOfLen(ProbeBytes, n) : n \in 0..ProbeLen}

\* --header, --footer, --delimiter and -l / -r as given on the command line
HeaderCounts == -1..MaxHeader
FooterCounts == -1..MaxFooter
Delimiters == {<<" ", " ">>}
Justifications == {<<FALSE, FALSE>>, <<TRUE, FALSE>>, <<FALSE, TRUE>>}

(* -------------------------------- state ------------------------------- *)
VARIABLES
    run,              \* one call of extents(): its locals, the globals it writes, stdout
    twin,             \* a second, independent call of extents() (two-run comparisons)
    total,            \* number of lines the two compared inputs have
    probe,            \* one call of a pure function: its arguments and its result
    headerLines,      \* --header as configured, before any run
    optFooterLines,   \* *optFooterLines
    optDelimiter,     \* *optDelimiter
    optLeftJustify,   \* *optLeftJustify
    optRightJustify   \* *optRightJustify

vars == <<run, twin, total, probe, headerLines, optFooterLines, optDelimiter,
          optLeftJustify, optRightJustify>>
config == <<headerLines, optFooterLines, optDelimiter, optLeftJustify, optRightJustify>>
others == <<twin, total, probe>>

\* the state at entry of extents(); input, pushed and kinds are history:
\* the lines read so far, the lines given to the queue, and what each line of
\* stdout is
newRun(h) ==
    [pc |-> "start", cb |-> Nil, lineNumber |-> 0, lines |-> <<>>,
     mergedExtents |-> <<>>, optHeaderLines |-> h, idx |-> 0, fields |-> <<>>,
     drained |-> <<>>, stdout |-> <<>>, kinds |-> <<>>, input |-> <<>>,
     pushed |-> <<>>]

(* ------------------------- the steps of extents() --------------------- *)
\* extents.go:135-144
startStep(r, footer) ==
    LET n == newCircularBuffer(footer)
    IN  IF n.err THEN [r EXCEPT !.pc = "error"]
        ELSE [r EXCEPT !.pc = "scan", !.cb = n.cb]

\* a header test that is off by one: the H-th line counts as a body line
isHeaderLineStrict(lineNumber, h) == lineNumber < h

\* the header test of extents.go:148, on the incremented lineNumber
isHeaderLine(lineNumber, h) == lineNumber <= h

\* what a body line does (extents.go:156-164)
bodyStep(r, text) ==
    LET q == QueueDequeue(r.cb, Box(text))
        r1 == [r EXCEPT !.cb = q.cb, !.input = Append(@, text),
                        !.pushed = Append(@, text)]
    IN  IF q.ret = Nil THEN r1
        ELSE [r1 EXCEPT !.lines = Append(@, q.ret.str),
                        !.mergedExtents = mergeExtents(@, extentsFromLine(q.ret.str))]

\* one iteration of the scan loop (extents.go:145-165), br.Text() = text
scanStep(r, text) ==
    IF r.optHeaderLines > 0
    THEN IF isHeaderLine(r.lineNumber + 1, r.optHeaderLines)
         THEN [r EXCEPT !.lineNumber = @ + 1,
                        !.stdout = Append(@, text),
                        !.kinds = Append(@, "header"),
                        !.input = Append(@, text)]
         ELSE bodyStep([r EXCEPT !.lineNumber = @ + 1, !.optHeaderLines = 0], text)
    ELSE bodyStep(r, text)

\* a read failure that still writes the lines retained so far
scanFailStepFlush(r) ==
    [r EXCEPT !.pc = "error", !.stdout = @ \o r.lines,
              !.kinds = @ \o [k \in 1..Len(r.lines) |-> "body"]]

\* br.Scan() returns false and br.Err() is an error (extents.go:166-168)
scanFailStep(r) == [r EXCEPT !.pc = "error"]

\* br.Scan() returns false and br.Err() is nil
scanEndStep(r) == [r EXCEPT !.pc = "replay"]

\* one iteration of the replay loop (extents.go:172-197)
formatStep(r, delim, lj, rj) ==
    LET res == fieldsFromExtents(r.lines[r.idx + 1], r.mergedExtents)
    IN  IF res.panic THEN [r EXCEPT !.pc = "panic"]
        ELSE IF res.fields = <<>>
             THEN [r EXCEPT !.idx = @ + 1, !.fields = res.fields]
             ELSE [r EXCEPT !.idx = @ + 1, !.fields = res.fields,
                            !.stdout = Append(@, printFields(res.fields,
                                                  r.mergedExtents, 0, delim, lj, rj)),
                            !.kinds = Append(@, "body")]

\* a replay loop that hands control back to the scan loop
drainStepBackToScan(r) == [r EXCEPT !.pc = "scan"]

\* cb.Drain() (extents.go:199)
drainStep(r) == [r EXCEPT !.pc = "drain", !.drained = Drain(r.cb)]

\* one iteration of the drain loop (extents.go:199-201)
footerStep(r) ==
    [r EXCEPT !.drained = Tail(@),
              !.stdout = Append(@, Head(r.drained).str),
              !.kinds = Append(@, "footer")]

\* extents.go:202
returnStep(r) == [r EXCEPT !.pc = "done"]

(* ------------------------------- one run ------------------------------ *)
Init ==
    /\ headerLines \in HeaderCounts
    /\ optFooterLines \in FooterCounts
    /\ optDelimiter \in Delimiters
    /\ \E j \in Justifications : optLeftJustify = j[1] /\ optRightJustify = j[2]
    /\ run = newRun(headerLines)
    /\ twin = newRun(headerLines)
    /\ total = 0
    /\ probe = [stage |-> "none"]

Start ==
    /\ run.pc = "start"
    /\ run' = startStep(run, optFooterLines)
    /\ UNCHANGED <<others, config>>

Scan ==
    /\ run.pc = "scan"
    /\ Len(run.input) < MaxLines
    /\ \E text \in Lines : run' = scanStep(run, text)
    /\ UNCHANGED <<others, config>>

ScanFail ==
    /\ run.pc = "scan"
    /\ run' = scanFailStep(run)
    /\ UNCHANGED <<others, config>>

ScanEnd ==
    /\ run.pc = "scan"
    /\ run' = scanEndStep(run)
    /\ UNCHANGED <<others, config>>

Format ==
    /\ run.pc = "replay"
    /\ run.idx < Len(run.lines)
    /\ run' = formatStep(run, optDelimiter, optLeftJustify, optRightJustify)
    /\ UNCHANGED <<others, config>>

DrainQueue ==
    /\ run.pc = "replay"
    /\ run.idx = Len(run.lines)
    /\ run' = drainStep(run)
    /\ UNCHANGED <<others, config>>

PrintFooter ==
    /\ run.pc = "drain"
    /\ run.drained # <<>>
    /\ run' = footerStep(run)
    /\ UNCHANGED <<others, config>>

Return ==
    /\ run.pc = "drain"
    /\ run.drained = <<>>
    /\ run' = returnStep(run)
    /\ UNCHANGED <<others, config>>

Next ==
    \/ Start
    \/ Scan
    \/ ScanFail
    \/ ScanEnd
    \/ Format
    \/ DrainQueue
    \/ PrintFooter
    \/ Return

Spec == Init /\ [][Next]_vars

(* ------------------------------- claims ------------------------------- *)
\* the replay loop has formatted at least one line and did not fail
Formatted(r) == r.pc \in {"replay", "drain", "done"} /\ r.idx > 0

\* C1: with header = 0 and footer = 0, every formatted line has one field per
\* merged extent and no field is longer than its column's width, so that
\* cell k starts at the same output column on every formatted line.
C1_ColumnsLineUp ==
    (headerLines = 0 /\ optFooterLines = 0 /\ Formatted(run)) =>
        /\ Len(run.fields) = Len(run.mergedExtents)
        /\ \A k \in 1..Len(run.fields) :
               RuneCount(run.fields[k]) <= width(run.mergedExtents[k])

\* what the run writes for a retained line once the merged extents are final
formatted(r, line) ==
    printFields(fieldsFromExtents(line, r.mergedExtents).fields, r.mergedExtents, 0,
                optDelimiter, optLeftJustify, optRightJustify)

\* number of leading input lines that are header lines
headerCount(r) == Min(Max(headerLines, 0), Len(r.input))

\* number of trailing input lines still held back by the queue at end of input
footerCount(r) == Min(Max(optFooterLines, 0), Len(r.input) - headerCount(r))

\* C2: a completed run writes exactly one output line per input line, the
\* i-th from the i-th input line: header lines verbatim, body lines
\* formatted, footer lines verbatim; blank body lines are not dropped.
C2_OneOutputLinePerInputLine ==
    (run.pc = "done" /\ headerLines >= 0 /\ optFooterLines >= 0) =>
        /\ Len(run.stdout) = Len(run.input)
        /\ \A i \in 1..Len(run.input) :
               run.stdout[i] =
                   IF i <= headerCount(run) \/ i > Len(run.input) - footerCount(run)
                   THEN run.input[i]
                   ELSE formatted(run, run.input[i])

\* byte index at which column c of s starts (Len(s) + 1 when s is shorter)
RECURSIVE columnStartFrom(_, _, _, _)
columnStartFrom(s, pos, col, c) ==
    IF col = c \/ pos > Len(s) THEN pos
    ELSE columnStartFrom(s, pos + RuneSize(s, pos), col + 1, c)

ColumnStart(s, c) == columnStartFrom(s, 1, 1, c)

\* the word of line lying in the column range of extent e ("" when that
\* range holds only whitespace or lies beyond the end of the line)
wordIn(line, e) ==
    TrimSpace(SubSeq(line, ColumnStart(line, e.l), ColumnStart(line, e.r + 1) - 1))

\* every word of line lies inside one of the extents
wordsInside(line, extents) ==
    LET ws == extentsFromLine(line)
    IN  \A w \in 1..Len(ws) : \E k \in 1..Len(extents) :
            extents[k].l <= ws[w].l /\ ws[w].r <= extents[k].r

\* the left fold of mergeExtents over the extents of lines
RECURSIVE foldExtents(_)
foldExtents(ls) ==
    IF ls = <<>> THEN <<>>
    ELSE mergeExtents(foldExtents(SubSeq(ls, 1, Len(ls) - 1)),
                      extentsFromLine(ls[Len(ls)]))

\* the body lines read so far, and how many of them the queue has released
bodyLines(r) == SubSeq(r.input, headerCount(r) + 1, Len(r.input))
keptCount(r) == Len(bodyLines(r)) - footerCount(r)

\* C3: with footerLines = F and B body lines read, exactly the first
\* max(0, B - F) body lines are retained and formatted and the last
\* min(F, B) body lines are written verbatim, in order, after all formatted
\* lines.  Stated on the states in which a run whose input was read to its
\* end has stopped.
C3_FooterLinesHeldBack ==
    (run.pc \in {"done", "panic"} /\ headerLines >= 0 /\ optFooterLines >= 0) =>
        LET f == footerCount(run)
            n == Len(run.stdout)
        IN  /\ run.lines = SubSeq(bodyLines(run), 1, keptCount(run))
            /\ run.idx = keptCount(run)
            /\ n >= f
            /\ SubSeq(run.stdout, n - f + 1, n) =
                   SubSeq(run.input, Len(run.input) - f + 1, Len(run.input))
            /\ \A i \in 1..n : (run.kinds[i] = "footer") <=> (i > n - f)

\* C4: the first min(H, n) input lines are written unmodified and in order
\* before any other output, and none of them is pushed into the delay queue,
\* retained, or folded into the merged extent set.
C4_HeaderPassThrough ==
    headerLines >= 0 =>
        LET h == headerCount(run)
        IN  /\ Len(run.stdout) >= h
            /\ SubSeq(run.stdout, 1, h) = SubSeq(run.input, 1, h)
            /\ \A i \in 1..Len(run.kinds) : (run.kinds[i] = "header") <=> (i <= h)
            /\ run.pushed = bodyLines(run)
            /\ Len(run.lines) <= Len(run.pushed)
            /\ run.lines = SubSeq(run.pushed, 1, Len(run.lines))
            /\ run.mergedExtents = foldExtents(run.lines)

\* a header line went straight to stdout and a different body line was
\* retained and folded
C4_Witness ==
    /\ headerLines = 1
    /\ Len(run.input) >= 2
    /\ run.kinds # <<>> /\ run.kinds[1] = "header"
    /\ run.lines # <<>> /\ run.lines[1] # run.input[1]
    /\ run.input[1] # <<>> /\ extentsFromLine(run.input[1]) # <<>>
    /\ run.mergedExtents # <<>>

\* the line the replay loop formatted last
lastLine(r) == r.lines[r.idx]

\* C6: for a line that was folded into the merged extent set,
\* fieldsFromExtents returns the empty string for every merged extent in
\* whose column range the line has no non-space character (also when the
\* line ends before that extent), and every other field is exactly the
\* line's word lying inside its extent.
C6_MissingCellsAreEmpty ==
    Formatted(run) =>
        \A k \in 1..Len(run.mergedExtents) :
            /\ k <= Len(run.fields)
            /\ run.fields[k] = wordIn(lastLine(run), run.mergedExtents[k])

\* C7: fieldsFromExtents never fails at run time and returns one field per
\* extent, for every line and extent list that occurs in a run.
C7_NoRuntimeFailure ==
    /\ run.pc # "panic"
    /\ Formatted(run) => Len(run.fields) = Len(run.mergedExtents)

\* extent k of the merged set holds only whitespace on the line, all other
\* extents hold a word, and every word of the line lies inside an extent
onlyMissing(line, extents, k) ==
    /\ wordIn(line, extents[k]) = <<>>
    /\ \A j \in 1..Len(extents) : j # k => wordIn(line, extents[j]) # <<>>
    /\ wordsInside(line, extents)

\* C9: when a line has words in the extents before and after a middle
\* extent and only whitespace in the middle one, the middle field is empty
\* and every other field is the word of its own extent.
C9_MiddleCellMissing ==
    Formatted(run) =>
        \A k \in 2..(Len(run.mergedExtents) - 1) :
            onlyMissing(lastLine(run), run.mergedExtents, k) =>
                /\ Len(run.fields) = Len(run.mergedExtents)
                /\ \A j \in 1..Len(run.mergedExtents) :
                       run.fields[j] = wordIn(lastLine(run), run.mergedExtents[j])

\* C10: when a line has only whitespace in the first extent and words in
\* the later extents, the first field is empty and every later field is the
\* word of its own extent.
C10_LeadingCellMissing ==
    (Formatted(run) /\ Len(run.mergedExtents) >= 2
        /\ onlyMissing(lastLine(run), run.mergedExtents, 1)) =>
            /\ Len(run.fields) = Len(run.mergedExtents)
            /\ run.fields[1] = <<>>
            /\ \A j \in 2..Len(run.mergedExtents) :
                   run.fields[j] = wordIn(lastLine(run), run.mergedExtents[j])

(* ------------- extentsFromLine then fieldsFromExtents, alone ---------- *)
\* the configuration and the idle runs of a specification that only calls
\* functions
Idle ==
    /\ headerLines = 0
    /\ optFooterLines = 0
    /\ optDelimiter = <<" ", " ">>
    /\ optLeftJustify = FALSE
    /\ optRightJustify = FALSE
    /\ run = newRun(0)
    /\ twin = newRun(0)
    /\ total = 0

InitFields ==
    /\ Idle
    /\ \E line \in ProbeLines : probe = [stage |-> "line", line |-> line]

\* ee := extentsFromLine(line)
ProbeExtents ==
    /\ probe.stage = "line"
    /\ probe' = [stage |-> "extents", line |-> probe.line,
                 extents |-> extentsFromLine(probe.line)]
    /\ UNCHANGED <<run, twin, total, config>>

\* fields := fieldsFromExtents(line, ee)
ProbeFields ==
    /\ probe.stage = "extents"
    /\ probe' = [stage |-> "fields", line |-> probe.line, extents |-> probe.extents,
                 result |-> fieldsFromExtents(probe.line, probe.extents)]
    /\ UNCHANGED <<run, twin, total, config>>

NextFields ==
    \/ ProbeExtents
    \/ ProbeFields

SpecFields == InitFields /\ [][NextFields]_vars

\* the whitespace-separated words of s, left to right
RECURSIVE wordsFrom(_, _, _)
wordsFrom(s, cur, acc) ==
    IF s = <<>> THEN (IF cur = <<>> THEN acc ELSE Append(acc, cur))
    ELSE IF Head(s) = " "
         THEN wordsFrom(Tail(s), <<>>, IF cur = <<>> THEN acc ELSE Append(acc, cur))
         ELSE wordsFrom(Tail(s), Append(cur, Head(s)), acc)

Words(s) == wordsFrom(s, <<>>, <<>>)

\* C8: round trip: fieldsFromExtents(line, extentsFromLine(line)) returns
\* exactly the whitespace-separated words of the line, in order, whatever
\* leading, trailing or repeated whitespace the line has.
C8_RoundTrip ==
    probe.stage = "fields" =>
        /\ ~probe.result.panic
        /\ probe.result.fields = Words(probe.line)

(* ---------------- two runs over inputs of the same length ------------- *)
\* Both runs have the same configuration and read `total` lines each.  The
\* two inputs agree on every line that is neither one of the first H nor one
\* of the last F lines.
InitTwin ==
    /\ headerLines \in HeaderCounts
    /\ optFooterLines \in 0..MaxFooter
    /\ optDelimiter \in Delimiters
    /\ \E j \in Justifications : optLeftJustify = j[1] /\ optRightJustify = j[2]
    /\ total \in 0..MaxLines
    /\ run = newRun(headerLines)
    /\ twin = newRun(headerLines)
    /\ probe = [stage |-> "none"]

\* input position p holds a header line or a footer line
headerOrFooter(p) == p <= headerLines \/ p > total - optFooterLines

TwinStart ==
    /\ run.pc = "start"
    /\ run' = startStep(run, optFooterLines)
    /\ twin' = startStep(twin, optFooterLines)
    /\ UNCHANGED <<total, probe, config>>

TwinScan ==
    /\ run.pc = "scan"
    /\ Len(run.input) < total
    /\ \/ /\ headerOrFooter(Len(run.input) + 1)
          /\ \E text \in TwinLines, other \in TwinLines :
                 /\ run' = scanStep(run, text)
                 /\ twin' = IF twin.pc = "scan" THEN scanStep(twin, other) ELSE twin
       \/ /\ ~headerOrFooter(Len(run.input) + 1)
          /\ \E text \in Lines :
                 /\ run' = scanStep(run, text)
                 /\ twin' = IF twin.pc = "scan" THEN scanStep(twin, text) ELSE twin
    /\ UNCHANGED <<total, probe, config>>

TwinScanEnd ==
    /\ run.pc = "scan"
    /\ Len(run.input) = total
    /\ run' = scanEndStep(run)
    /\ twin' = IF twin.pc = "scan" THEN scanEndStep(twin) ELSE twin
    /\ UNCHANGED <<total, probe, config>>

TwinFormat ==
    /\ run.pc = "replay"
    /\ run.idx < Len(run.lines)
    /\ run' = formatStep(run, optDelimiter, optLeftJustify, optRightJustify)
    /\ twin' = IF twin.pc = "replay" /\ twin.idx < Len(twin.lines)
               THEN formatStep(twin, optDelimiter, optLeftJustify, optRightJustify)
               ELSE twin
    /\ UNCHANGED <<total, probe, config>>

TwinDrainQueue ==
    /\ run.pc = "replay"
    /\ run.idx = Len(run.lines)
    /\ run' = drainStep(run)
    /\ twin' = IF twin.pc = "replay" /\ twin.idx = Len(twin.lines)
               THEN drainStep(twin) ELSE twin
    /\ UNCHANGED <<total, probe, config>>

TwinPrintFooter ==
    /\ run.pc = "drain"
    /\ run.drained # <<>>
    /\ run' = footerStep(run)
    /\ twin' = IF twin.pc = "drain" /\ twin.drained # <<>>
               THEN footerStep(twin) ELSE twin
    /\ UNCHANGED <<total, probe, config>>

TwinReturn ==
    /\ run.pc = "drain"
    /\ run.drained = <<>>
    /\ run' = returnStep(run)
    /\ twin' = IF twin.pc = "drain" /\ twin.drained = <<>>
               THEN returnStep(twin) ELSE twin
    /\ UNCHANGED <<total, probe, config>>

NextTwin ==
    \/ TwinStart
    \/ TwinScan
    \/ TwinScanEnd
    \/ TwinFormat
    \/ TwinDrainQueue
    \/ TwinPrintFooter
    \/ TwinReturn

SpecTwin == InitTwin /\ [][NextTwin]_vars

\* the formatted lines a run has written, in order
RECURSIVE bodyOut(_, _)
bodyOut(out, kinds) ==
    IF out = <<>> THEN <<>>
    ELSE IF Head(kinds) = "body"
         THEN <<Head(out)>> \o bodyOut(Tail(out), Tail(kinds))
         ELSE bodyOut(Tail(out), Tail(kinds))

\* C5: two runs with the same configuration, over inputs of the same length
\* that differ only in the text of the first H and of the last F lines, have
\* the same merged extent set and write the same formatted lines.
C5_HeaderFooterNoInfluence ==
    /\ run.pc = twin.pc
    /\ run.mergedExtents = twin.mergedExtents
    /\ run.idx = twin.idx
    /\ bodyOut(run.stdout, run.kinds) = bodyOut(twin.stdout, twin.kinds)

\* both runs completed, their header and footer lines differ in text and in
\* extents, and a formatted line was written
C5_Witness ==
    /\ run.pc = "done"
    /\ headerLines = 1 /\ optFooterLines = 1 /\ total = 3
    /\ extentsFromLine(run.input[1]) # extentsFromLine(twin.input[1])
    /\ extentsFromLine(run.input[3]) # extentsFromLine(twin.input[3])
    /\ run.mergedExtents # <<>>
    /\ bodyOut(run.stdout, run.kinds) # <<>>
    /\ run.stdout # twin.stdout

(* --------------------------- mergeExtents, alone ---------------------- *)
\* every extent list within columns lo..MergeCols that is sorted by left
\* and pairwise non-overlapping
RECURSIVE ExtentListsFrom(_)
ExtentListsFrom(lo) ==
    {<<>>} \cup
    UNION {{<<extent(l, r)>> \o rest : rest \in ExtentListsFrom(r + 1)} :
               l \in lo..MergeCols, r \in lo..MergeCols}

ExtentLists == {ee \in ExtentListsFrom(1) : \A k \in 1..Len(ee) : ee[k].l <= ee[k].r}

InitMerge ==
    /\ Idle
    /\ \E a \in ExtentLists, b \in ExtentLists, c \in ExtentLists :
           probe = [stage |-> "lists", a |-> a, b |-> b, c |-> c]

\* mergeExtents on each pair of the three lists
MergePairs ==
    /\ probe.stage = "lists"
    /\ probe' = [stage |-> "pairs", a |-> probe.a, b |-> probe.b, c |-> probe.c,
                 ab |-> mergeExtents(probe.a, probe.b),
                 ba |-> mergeExtents(probe.b, probe.a),
                 bc |-> mergeExtents(probe.b, probe.c)]
    /\ UNCHANGED <<run, twin, total, config>>

\* mergeExtents of a merged pair with the third list, grouped both ways
MergeTriples ==
    /\ probe.stage = "pairs"
    /\ probe' = [stage |-> "triples", a |-> probe.a, b |-> probe.b, c |-> probe.c,
                 ab |-> probe.ab, ba |-> probe.ba, bc |-> probe.bc,
                 abc |-> mergeExtents(probe.ab, probe.c),
                 bca |-> mergeExtents(probe.a, probe.bc),
                 cab |-> mergeExtents(mergeExtents(probe.c, probe.a), probe.b)]
    /\ UNCHANGED <<run, twin, total, config>>

NextMerge ==
    \/ MergePairs
    \/ MergeTriples

SpecMerge == InitMerge /\ [][NextMerge]_vars

\* extent e lies inside extent f
inside(e, f) == f.l <= e.l /\ e.r <= f.r

\* two extents share a column
overlap(e, f) == e.l <= f.r /\ f.l <= e.r

\* the list is sorted by left, each extent has l <= r, and no two overlap
wellFormed(ee) ==
    /\ \A k \in 1..Len(ee) : ee[k].l <= ee[k].r
    /\ \A j, k \in 1..Len(ee) : j < k => ee[j].l < ee[k].l /\ ~overlap(ee[j], ee[k])

\* the list can be the extent list of one line: consecutive extents are
\* separated by at least one column
lineLike(ee) == \A k \in 1..(Len(ee) - 1) : ee[k].r + 1 < ee[k + 1].l

\* C11: for two extent lists that are sorted by left and pairwise
\* non-overlapping, every extent of either input is contained in exactly one
\* extent of mergeExtents(a, b).
C11_EachInputInExactlyOneOutput ==
    (probe.stage = "pairs" /\ wellFormed(probe.a) /\ wellFormed(probe.b)) =>
        \A e \in {probe.a[k] : k \in 1..Len(probe.a)} \cup
                 {probe.b[k] : k \in 1..Len(probe.b)} :
            Cardinality({k \in 1..Len(probe.ab) : inside(e, probe.ab[k])}) = 1

\* C13: for the extent lists a, b, c of three lines,
\* mergeExtents(mergeExtents(a, b), c) = mergeExtents(a, mergeExtents(b, c)).
C13_Associative ==
    (probe.stage = "triples" /\ lineLike(probe.a) /\ lineLike(probe.b)
        /\ lineLike(probe.c)) => probe.abc = probe.bca

\* C14: folding the extent lists of a collection of lines from the empty
\* set gives the same merged set in every order; in particular
\* mergeExtents(a, b) = mergeExtents(b, a).
C14_OrderIndependent ==
    /\ (probe.stage = "pairs" /\ lineLike(probe.a) /\ lineLike(probe.b)) =>
           probe.ab = probe.ba
    /\ (probe.stage = "triples" /\ lineLike(probe.a) /\ lineLike(probe.b)
           /\ lineLike(probe.c)) =>
           /\ mergeExtents(mergeExtents(mergeExtents(<<>>, probe.a), probe.b), probe.c)
                  = probe.abc
           /\ probe.abc = probe.cab

\* C12: after folding the extents of any sequence of lines, the merged
\* extent set is sorted ascending by left, every element has left <= right,
\* and its elements are pairwise non-overlapping.
C12_AccumulatorWellFormed == wellFormed(run.mergedExtents)

(* ----------------------------- the queue, alone ----------------------- *)
\* the values handed to QueueDequeue: lines held as interface{} values
QueueItems == {Box(<<>>), Box(<<"a">>), Box(<<"b">>)}

QueueCaps == 0..MaxCap

\* a fresh buffer of each capacity; items are the arguments of the calls so
\* far, rets the values they returned, out the result of Drain
InitQueue ==
    /\ Idle
    /\ \E n \in QueueCaps :
           probe = [stage |-> "queue", cap |-> n, cb |-> newCircularBuffer(n).cb,
                    items |-> <<>>, rets |-> <<>>, drained |-> FALSE, out |-> <<>>]

\* one call of QueueDequeue
QueuePush ==
    /\ probe.stage = "queue"
    /\ ~probe.drained
    /\ Len(probe.items) < MaxPushes
    /\ \E item \in QueueItems :
           LET q == QueueDequeue(probe.cb, item)
           IN  probe' = [probe EXCEPT !.cb = q.cb,
                                      !.items = Append(@, item),
                                      !.rets = Append(@, q.ret)]
    /\ UNCHANGED <<run, twin, total, config>>

\* the call of Drain; no method is called after it
QueueDrain ==
    /\ probe.stage = "queue"
    /\ ~probe.drained
    /\ probe' = [probe EXCEPT !.drained = TRUE, !.out = Drain(probe.cb)]
    /\ UNCHANGED <<run, twin, total, config>>

NextQueue ==
    \/ QueuePush
    \/ QueueDrain

SpecQueue == InitQueue /\ [][NextQueue]_vars

\* C15: on a queue of capacity F > 0 the k-th push returns the no-item
\* value when k <= F and the item of push k - F when k > F.
C15_PushReturnsItemFromFPushesAgo ==
    (probe.stage = "queue" /\ probe.cap > 0) =>
        \A k \in 1..Len(probe.rets) :
            probe.rets[k] = IF k <= probe.cap THEN Nil ELSE probe.items[k - probe.cap]

\* capacity 3: the fourth push returns the item of the first push, after
\* three pushes that returned no item
C15_Witness ==
    /\ probe.stage = "queue"
    /\ probe.cap = 3
    /\ Len(probe.rets) = 5
    /\ probe.items[1] = Box(<<>>)
    /\ probe.items[2] = Box(<<"a">>)
    /\ SubSeq(probe.rets, 1, 3) = <<Nil, Nil, Nil>>
    /\ probe.rets[4] = Box(<<>>)
    /\ probe.rets[5] = Box(<<"a">>)

\* C16: on a queue of capacity F > 0, Drain after n pushes returns the items
\* of the last min(n, F) pushes, oldest first.
C16_DrainReturnsLastItemsOldestFirst ==
    (probe.stage = "queue" /\ probe.cap > 0 /\ probe.drained) =>
        LET n == Len(probe.items)
            m == Min(n, probe.cap)
        IN  probe.out = SubSeq(probe.items, n - m + 1, n)

\* capacity 3 drained after 5 pushes: the items of pushes 3, 4, 5 in order
C16_Witness ==
    /\ probe.stage = "queue"
    /\ probe.cap = 3
    /\ probe.drained
    /\ probe.items = <<Box(<<"a">>), Box(<<"a">>), Box(<<"b">>), Box(<<>>), Box(<<"a">>)>>
    /\ probe.out = <<Box(<<"b">>), Box(<<>>), Box(<<"a">>)>>

(* ------------------------- the queue in the pipeline ------------------ *)
\* C17: with capacity 0 every push returns its own argument and Drain is
\* empty, so with footer = 0 every body line is retained in the step that
\* reads it and no footer line is printed.
C17_ZeroCapacityDelaysNothing ==
    (optFooterLines = 0 /\ run.pc # "start") =>
        /\ \A item \in QueueItems : QueueDequeue(run.cb, item).ret = item
        /\ Drain(run.cb) = <<>>
        /\ run.lines = run.pushed
        /\ run.drained = <<>>
        /\ \A k \in 1..Len(run.kinds) : run.kinds[k] # "footer"

\* footer = 0, two body lines read, retained and the run finished
C17_Witness ==
    /\ optFooterLines = 0
    /\ run.pc = "done"
    /\ Len(run.pushed) = 2
    /\ run.lines = run.pushed
    /\ headerLines = 0
    /\ run.kinds = <<"body", "body">>

\* C18: the no-item value comes back only from the first F pushes and is
\* never a pushed line: each later push returns the line of F pushes before,
\* an empty line included, and the pipeline retains it as a body line.
C18_SentinelIsNotALine ==
    (optFooterLines >= 0 /\ run.pc # "start") =>
        LET n == Len(run.pushed)
        IN  /\ run.lines = SubSeq(run.pushed, 1, Max(0, n - optFooterLines))
            /\ \A k \in 1..Len(run.cb.items) :
                   (run.cb.items[k] = Nil) <=> (~run.cb.looped /\ k > run.cb.i)

\* an empty line went through a queue of capacity 2 and was retained
C18_Witness ==
    /\ optFooterLines = 2
    /\ run.pc = "scan"
    /\ Len(run.pushed) = 3
    /\ run.pushed[1] = <<>>
    /\ run.lines = <<<<>>>>

(* --------------------------- extentsFromLine, alone ------------------- *)
\* the maximal runs of non-whitespace columns of a line of one-byte runes,
\* as pairs <<left, right>> of 1-indexed columns
wordRuns(line) ==
    {lr \in (1..Len(line)) \X (1..Len(line)) :
        /\ lr[1] <= lr[2]
        /\ \A k \in lr[1]..lr[2] : ~IsSpace(line, k)
        /\ lr[1] = 1 \/ IsSpace(line, lr[1] - 1)
        /\ lr[2] = Len(line) \/ IsSpace(line, lr[2] + 1)}

\* C19: extentsFromLine returns exactly the maximal runs of non-whitespace
\* runes as 1-indexed inclusive column ranges, left to right, with
\* left <= right and at least one whitespace column between consecutive
\* extents; an empty or all-whitespace line yields the empty list.
C19_ExtentsAreTheWordRuns ==
    probe.stage = "extents" =>
        LET ee == probe.extents
        IN  /\ {<<ee[k].l, ee[k].r>> : k \in 1..Len(ee)} = wordRuns(probe.line)
            /\ \A k \in 1..Len(ee) : ee[k].l <= ee[k].r
            /\ \A k \in 1..(Len(ee) - 1) : ee[k].r + 1 < ee[k + 1].l
            /\ (\A k \in 1..Len(probe.line) : IsSpace(probe.line, k)) => ee = <<>>

\* two words with whitespace before and between them
C19_Witness ==
    /\ probe.stage = "extents"
    /\ probe.line = <<" ", "a", " ", "b">>
    /\ probe.extents = <<extent(2, 2), extent(4, 4)>>

(* ------------------------------ rows, alone --------------------------- *)
\* the fields of the rows: empty, text, numbers, wider than a column, and a
\* field with a blank inside
CellFields == {<<>>, <<"a">>, <<"1">>, <<"1", "1">>, <<"a", "a", "a", "a">>, <<"1", " ", "1">>}

CellWidths == 1..MaxWidth

\* two merged extents of the chosen widths, and -l / -r in every combination;
\* rows holds the fields of the last two lines printed, out their text
InitCell ==
    /\ Idle
    /\ \E w1 \in CellWidths, w2 \in CellWidths, lj \in BOOLEAN, rj \in BOOLEAN :
           probe = [stage |-> "rows",
                    mergedExtents |-> <<extent(1, w1), extent(w1 + 2, w1 + 1 + w2)>>,
                    delim |-> <<" ", " ">>, lj |-> lj, rj |-> rj,
                    rows |-> <<>>, out |-> <<>>]

\* one iteration of the replay loop on a line with the given two fields
PrintRow ==
    /\ probe.stage = "rows"
    /\ \E f1 \in CellFields, f2 \in CellFields :
           LET keep == IF probe.rows = <<>> THEN 0 ELSE 1
               last(s) == SubSeq(s, Len(s) - keep + 1, Len(s))
           IN  probe' = [probe EXCEPT
                   !.rows = Append(last(@), <<f1, f2>>),
                   !.out = Append(last(@), printFields(<<f1, f2>>, probe.mergedExtents,
                                       0, probe.delim, probe.lj, probe.rj))]
    /\ UNCHANGED <<run, twin, total, config>>

NextCell == PrintRow

SpecCell == InitCell /\ [][NextCell]_vars

\* text is the field followed by blanks up to the width, nothing cut
leftJustified(text, w, field) ==
    /\ Len(text) = Max(w, Len(field))
    /\ SubSeq(text, 1, Len(field)) = field
    /\ \A k \in (Len(field) + 1)..Len(text) : text[k] = " "

\* text is blanks up to the width followed by the field, nothing cut
rightJustified(text, w, field) ==
    /\ Len(text) = Max(w, Len(field))
    /\ SubSeq(text, Len(text) - Len(field) + 1, Len(text)) = field
    /\ \A k \in 1..(Len(text) - Len(field)) : text[k] = " "

\* the cell as the three justifications want it: -l is Left, -r without -l
\* is Right, neither is Auto
cellAsWanted(text, w, field, lj, rj) ==
    IF lj THEN leftJustified(text, w, field)
    ELSE IF rj THEN rightJustified(text, w, field)
    ELSE /\ ParseFloatOk(field) => rightJustified(text, w, field)
         /\ ~ParseFloatOk(field) => leftJustified(text, w, field)

\* C20: each cell is padded to its column's width and never cut; Left puts
\* every cell left, Right puts every cell right, Auto puts a cell right
\* exactly when its own field parses as a number.
C20_CellsPaddedAndJustified ==
    probe.stage = "rows" =>
        \A n \in 1..Len(probe.rows) :
            LET f1 == probe.rows[n][1]
                f2 == probe.rows[n][2]
                w1 == width(probe.mergedExtents[1])
                w2 == width(probe.mergedExtents[2])
                text == probe.out[n]
                n1 == Max(w1, Len(f1))
                n2 == n1 + Len(probe.delim)
            IN  /\ Len(text) = n2 + Max(w2, Len(f2))
                /\ cellAsWanted(SubSeq(text, 1, n1), w1, f1, probe.lj, probe.rj)
                /\ SubSeq(text, n1 + 1, n2) = probe.delim
                /\ cellAsWanted(SubSeq(text, n2 + 1, Len(text)), w2, f2,
                                probe.lj, probe.rj)

\* Auto: the same column of width 2 holds a number in one row, put right,
\* and a text in the next, put left
C20_Witness ==
    /\ probe.stage = "rows"
    /\ ~probe.lj /\ ~probe.rj
    /\ probe.rows = <<<<<<"a">>, <<"1">>>>, <<<<"1">>, <<"a">>>>>>
    /\ probe.out = <<<<"a", " ", " ", " ", " ", "1">>, <<" ", "1", " ", " ", "a", " ">>>>

(* --------------------------- the formatted line ----------------------- *)
\* text, from position pos on, is the cells of fields i.. : each cell as wide
\* as its column or its field, whichever is more, with the field whole in
\* it and blanks around; delim once between two cells and nothing after
\* the last
RECURSIVE cellsFrom(_, _, _, _, _, _)
cellsFrom(text, pos, fields, ee, i, delim) ==
    LET f == fields[i]
        n == Max(width(ee[i]), RuneCount(f))
        cell == SubSeq(text, pos, pos + n - 1)
        padded == /\ pos + n - 1 <= Len(text)
                  /\ leftJustified(cell, width(ee[i]), f)
                       \/ rightJustified(cell, width(ee[i]), f)
    IN  IF i = Len(fields)
        THEN padded /\ pos + n - 1 = Len(text)
        ELSE /\ padded
             /\ pos + n + Len(delim) - 1 <= Len(text)
             /\ SubSeq(text, pos + n, pos + n + Len(delim) - 1) = delim
             /\ cellsFrom(text, pos + n + Len(delim), fields, ee, i + 1, delim)

\* C21: every formatted line is n padded cells, n the number of merged
\* extents and n >= 1, with the delimiter once between adjacent cells, none
\* after the last cell, and one line terminator at the end.
C21_DelimiterBetweenCellsOnly ==
    (run.pc = "replay" /\ run.idx > 0 /\ run.fields # <<>>) =>
        /\ Len(run.mergedExtents) >= 1
        /\ Len(run.fields) = Len(run.mergedExtents)
        /\ run.kinds[Len(run.kinds)] = "body"
        /\ cellsFrom(run.stdout[Len(run.stdout)], 1, run.fields, run.mergedExtents,
                     1, optDelimiter)

\* a line of two cells, then a line with the second cell empty
C21_Witness ==
    /\ run.pc = "replay"
    /\ run.lines = <<<<"a", " ", "a">>, <<"a">>>>
    /\ run.idx = 2
    /\ ~optRightJustify
    /\ run.stdout = <<<<"a", " ", " ", "a">>, <<"a", " ", " ", " ">>>>

(* ------------------------------- the phases --------------------------- *)
\* the phase a run is in: header lines are still passed through while the
\* header count is positive; "failed" is a run ended by an error or a panic
phase(r) ==
    CASE r.pc = "start" -> "AwaitingHeader"
      [] r.pc = "scan" -> IF r.optHeaderLines > 0 /\ r.pushed = <<>>
                          THEN "AwaitingHeader" ELSE "CollectingBody"
      [] r.pc = "replay" -> "Replaying"
      [] r.pc = "drain" -> "Draining"
      [] r.pc = "done" -> "Done"
      [] OTHER -> "failed"

phaseRank(p) ==
    CASE p = "AwaitingHeader" -> 0
      [] p = "CollectingBody" -> 1
      [] p = "Replaying" -> 2
      [] p = "Draining" -> 3
      [] OTHER -> 4

\* the kinds of the lines written so far: headers, then bodies, then footers
kindRank(k) == CASE k = "header" -> 0 [] k = "body" -> 1 [] OTHER -> 2

\* what one step of a run may do to its phase and its data
phaseStep ==
    /\ phaseRank(phase(run')) >= phaseRank(phase(run))
    /\ phase(run) = "Draining" => phase(run') \in {"Draining", "Done"}
    /\ phase(run) \in {"Replaying", "Draining", "Done", "failed"} =>
           /\ run'.input = run.input
           /\ run'.pushed = run.pushed
           /\ run'.lines = run.lines
           /\ run'.mergedExtents = run.mergedExtents
    /\ phase(run') \in {"AwaitingHeader", "CollectingBody"} =>
           \A k \in 1..Len(run'.kinds) : run'.kinds[k] = "header"
    /\ phase(run') \in {"AwaitingHeader", "CollectingBody", "Replaying"} =>
           \A k \in 1..Len(run'.kinds) : run'.kinds[k] # "footer"
    /\ \A j, k \in 1..Len(run'.kinds) :
           j < k => kindRank(run'.kinds[j]) <= kindRank(run'.kinds[k])

\* C22: a run goes through AwaitingHeader, CollectingBody, Replaying,
\* Draining, Done in that order only: no formatted line is written before
\* the input is exhausted, every formatted line is made with the same final
\* merged extents, footer lines come after the last formatted line, and no
\* input is read once Replaying has started.
C22_PhasesInOrder == [][phaseStep]_vars

\* a finished run that passed one header line, formatted one body line and
\* then wrote one footer line
C22_Witness ==
    /\ run.pc = "done"
    /\ run.kinds = <<"header", "body", "footer">>
    /\ Len(run.input) = 3

(* ------------------------------- the errors --------------------------- *)
\* the run ended by returning br.Err(): the queue was built, the scan failed
readFailed(r) == r.pc = "error" /\ r.cb # Nil

\* C23: when reading fails after k lines, the run returns the error and
\* stdout is exactly the first min(k, H) input lines, the header lines
\* passed through; no formatted line and no footer line is written.
C23_ReadErrorKeepsHeadersOnly ==
    readFailed(run) =>
        LET k == Len(run.input)
            h == Min(k, Max(headerLines, 0))
        IN  /\ run.stdout = SubSeq(run.input, 1, h)
            /\ run.kinds = [j \in 1..h |-> "header"]

\* one header line and two body lines were read, then the read failed
C23_Witness ==
    /\ readFailed(run)
    /\ headerLines = 1
    /\ optFooterLines = 1
    /\ Len(run.input) = 3
    /\ run.lines # <<>>
    /\ run.stdout = <<run.input[1]>>

\* C24: newCircularBuffer with a negative count returns an error and no
\* buffer, and a run with a negative footer count returns that error
\* before it reads a line or writes anything.
C24_NegativeFooterRejected ==
    /\ \A n \in FooterCounts :
           n < 0 => newCircularBuffer(n).err /\ newCircularBuffer(n).cb = Nil
    /\ (optFooterLines < 0 /\ run.pc # "start") =>
           /\ run.pc = "error"
           /\ run.cb = Nil
           /\ run.input = <<>>
           /\ run.stdout = <<>>

\* footer = -1 with a header configured: the run has ended with the error
C24_Witness ==
    /\ optFooterLines = -1
    /\ headerLines = 1
    /\ run.pc = "error"
    /\ run.cb = Nil

\* C25: a run with a negative header count fails with a configuration
\* error before any input is read or any output is written.
C25_NegativeHeaderRejected ==
    (headerLines < 0 /\ optFooterLines >= 0 /\ run.pc # "start") =>
        /\ run.pc = "error"
        /\ run.input = <<>>
        /\ run.stdout = <<>>

(* ----------------------- mergeExtents on aligned columns -------------- *)
\* the elements of a list, as a set
elems(ee) == {ee[k] : k \in 1..Len(ee)}

\* the pairs of an extent of a and an extent of b that share a column
overlaps(a, b) == {p \in (1..Len(a)) \X (1..Len(b)) : overlap(a[p[1]], b[p[2]])}

\* every extent overlaps at most one extent of the other list
aligned(a, b) ==
    /\ \A j \in 1..Len(a) : Cardinality({p \in overlaps(a, b) : p[1] = j}) <= 1
    /\ \A k \in 1..Len(b) : Cardinality({p \in overlaps(a, b) : p[2] = k}) <= 1

\* the union of each overlapping pair and every unmatched extent as it is
unionsAndUnmatched(a, b) ==
    {extent(Min(a[p[1]].l, b[p[2]].l), Max(a[p[1]].r, b[p[2]].r)) : p \in overlaps(a, b)}
    \cup {a[j] : j \in {j \in 1..Len(a) : \A p \in overlaps(a, b) : p[1] # j}}
    \cup {b[k] : k \in {k \in 1..Len(b) : \A p \in overlaps(a, b) : p[2] # k}}

\* C26: for sorted, pairwise non-overlapping a and b in which every extent
\* overlaps at most one extent of the other list, mergeExtents(a, b) is the
\* sorted, pairwise non-overlapping list of the union of each overlapping
\* pair and of every unmatched extent unchanged; its length is |a| + |b|
\* less the number of overlapping pairs.
C26_AlignedColumnsMerge ==
    (probe.stage = "pairs" /\ wellFormed(probe.a) /\ wellFormed(probe.b)
        /\ aligned(probe.a, probe.b)) =>
        /\ elems(probe.ab) = unionsAndUnmatched(probe.a, probe.b)
        /\ Len(probe.ab) = Len(probe.a) + Len(probe.b)
                               - Cardinality(overlaps(probe.a, probe.b))
        /\ wellFormed(probe.ab)

\* two columns widened by the other line and one column the first line lacks
C26_Witness ==
    /\ probe.stage = "pairs"
    /\ probe.a = <<extent(1, 1), extent(4, 4)>>
    /\ probe.b = <<extent(1, 2), extent(3, 3), extent(4, 4)>>
    /\ aligned(probe.a, probe.b)
    /\ probe.ab = <<extent(1, 2), extent(3, 3), extent(4, 4)>>

(* ----------------------------- attemptMerge, alone -------------------- *)
\* the extents with 1 <= l <= r <= MergeCols
Extents == {e \in {extent(l, r) : l \in 1..MergeCols, r \in 1..MergeCols} : e.l <= e.r}

InitAttempt ==
    /\ Idle
    /\ \E x \in Extents, y \in Extents : probe = [stage |-> "extents2", x |-> x, y |-> y]

\* attemptMerge on the two extents, in both orders
AttemptBoth ==
    /\ probe.stage = "extents2"
    /\ probe' = [stage |-> "attempted", x |-> probe.x, y |-> probe.y,
                 xy |-> attemptMerge(probe.x, probe.y),
                 yx |-> attemptMerge(probe.y, probe.x)]
    /\ UNCHANGED <<run, twin, total, config>>

NextAttempt == AttemptBoth

SpecAttempt == InitAttempt /\ [][NextAttempt]_vars

lastPushInto(k, f, p) == IF k > p THEN 0 ELSE p - ((p - k) % f)

\* C28: for a queue of capacity F > 0, after p pushes and before Drain,
\* 0 <= index < F, index = p mod F, the wrapped flag is set exactly when
\* p >= F, and the queue holds exactly the min(p, F) most recent pushes.
C28_QueueStateInvariant ==
    (probe.stage = "queue" /\ probe.cap > 0 /\ ~probe.drained) =>
        LET f == probe.cap
            p == Len(probe.items)
            cb == probe.cb
            held == {k \in 1..f : cb.items[k] # Nil}
        IN  /\ Len(cb.items) = f
            /\ 0 <= cb.i /\ cb.i < f
            /\ cb.i = p % f
            /\ cb.looped <=> p >= f
            /\ Cardinality(held) = Min(p, f)
            /\ \A k \in held : /\ lastPushInto(k, f, p) > p - Min(p, f)
                               /\ cb.items[k] = probe.items[lastPushInto(k, f, p)]
            /\ {lastPushInto(k, f, p) : k \in held} = (p - Min(p, f) + 1)..p

\* capacity 3 after 3 pushes: the index is back at 0 and the flag is set
C28_Witness ==
    /\ probe.stage = "queue"
    /\ probe.cap = 3
    /\ ~probe.drained
    /\ Len(probe.items) = 3
    /\ probe.cb.i = 0
    /\ probe.cb.looped
    /\ probe.cb.items = probe.items

(* ------------------------- one stream after another ------------------- *)
\* process() is called once per input stream; *optHeaderLines is a package
\* variable, so the next call finds it as the last call left it.  twin keeps
\* the finished run of the first stream, run is the run of the current one.
AgainLines == {<<"a">>, <<"a", " ", "a">>}

InitAgain ==
    /\ headerLines \in HeaderCounts
    /\ optFooterLines \in FooterCounts
    /\ optDelimiter \in Delimiters
    /\ \E j \in Justifications : optLeftJustify = j[1] /\ optRightJustify = j[2]
    /\ run = newRun(headerLines)
    /\ twin = newRun(headerLines)
    /\ total = 0
    /\ probe = [stage |-> "none"]

AgainScan ==
    /\ run.pc = "scan"
    /\ Len(run.input) < MaxLines
    /\ \E text \in AgainLines : run' = scanStep(run, text)
    /\ UNCHANGED <<others, config>>

\* the first stream is done; the call for the next stream starts with the
\* header count the first call left in *optHeaderLines
NextStream ==
    /\ run.pc = "done"
    /\ twin.pc = "start"
    /\ twin' = run
    /\ run' = newRun(run.optHeaderLines)
    /\ UNCHANGED <<total, probe, config>>

NextAgain ==
    \/ Start
    \/ AgainScan
    \/ ScanEnd
    \/ Format
    \/ DrainQueue
    \/ PrintFooter
    \/ Return
    \/ NextStream

SpecAgain == InitAgain /\ [][NextAgain]_vars

\* the header lines a run has passed through
passedHeaders(r) == Cardinality({k \in 1..Len(r.kinds) : r.kinds[k] = "header"})

\* C29: a run leaves the configured header count unchanged, so the run over
\* a second stream again passes through exactly H header lines, however
\* many lines the first stream had.
C29_HeaderCountSurvivesARun ==
    /\ run.pc = "done" => run.optHeaderLines = headerLines
    /\ (twin.pc = "done" /\ run.pc = "done") =>
           passedHeaders(run) = Min(Max(headerLines, 0), Len(run.input))

(* ------------------------- lines with multi-byte runes ---------------- *)
\* the runes of the lines: blank, a one-byte letter, and U+00E9, which
\* UTF-8 holds in the two bytes C3 A9
Runes == {" ", "a", "e'"}

\* the bytes of a string of runes
RECURSIVE utf8(_)
utf8(rs) ==
    IF rs = <<>> THEN <<>>
    ELSE (IF Head(rs) = "e'" THEN <<"C3", "A9">> ELSE <<Head(rs)>>) \o utf8(Tail(rs))

\* the runes of a string of bytes, as range-over-string decodes them
RECURSIVE runesFrom(_, _)
runesFrom(s, pos) ==
    IF pos > Len(s) THEN <<>>
    ELSE <<IF RuneSize(s, pos) = 2 THEN "e'" ELSE s[pos]>>
             \o runesFrom(s, pos + RuneSize(s, pos))

RuneLines == {utf8(rs) : rs \in UNION {StringsOfLen(Runes, n) : n \in 0..ProbeLen}}

InitRunes ==
    /\ Idle
    /\ \E line \in RuneLines : probe = [stage |-> "line", line |-> line]

SpecRunes == InitRunes /\ [][NextFields]_vars

\* the line has a rune of more than one byte
multiByte(line) == \E k \in 1..Len(line) : line[k] = "C3"

\* C30: for a line with multi-byte characters extentsFromLine counts one
\* column per rune, and fieldsFromExtents(line, extentsFromLine(line))
\* returns the words of the line.
C30_RuneColumns ==
    /\ (probe.stage = "extents" /\ multiByte(probe.line)) =>
           {<<probe.extents[k].l, probe.extents[k].r>> : k \in 1..Len(probe.extents)}
               = wordRuns(runesFrom(probe.line, 1))
    /\ (probe.stage = "fields" /\ multiByte(probe.line)) =>
           /\ ~probe.result.panic
           /\ probe.result.fields = Words(probe.line)

====
